---- MODULE Spec2Model ----
(***************************************************************************)
(* A model of the mlops-starter repository: the IrisInput schema           *)
(* (src/src/schema.py) and the script entry points that use the tracking   *)
(* and registry service (src/src/*.py, src/scripts/*.py).                  *)
(*                                                                         *)
(* One execution of one entry point is modelled at a time: Init picks the  *)
(* script, its inputs and the state of the external tracking service, and  *)
(* the actions are the steps of that script in program order.  Calls into  *)
(* the external service may succeed or raise, chosen nondeterministically. *)
(*                                                                         *)
(* Python values are records [kind, num, text]; a float is held in tenths  *)
(* (5.1 is num = 51), an int as itself, a str by its text.                 *)
(***************************************************************************)
EXTENDS Integers, Sequences, FiniteSets, TLC

\* ------------------------------------------------------------ bounds

\* Operations (assignments, to_array calls) performed on one record.
MaxOps == 2
\* Length of the list get_latest_versions returns.
MaxLatest == 2
\* Macro-F1 is drawn from {0, 1/MaxF1, ..., 1}, held as the numerator.
MaxF1 == 2

\* ------------------------------------------------------------ Python values

PyInt(n) == [kind |-> "int", num |-> n, text |-> ""]
PyFloat(t) == [kind |-> "float", num |-> t, text |-> ""]
PyStr(s) == [kind |-> "str", num |-> 0, text |-> s]
PyMissing == [kind |-> "missing", num |-> 0, text |-> ""]

\* What Python's float() makes of each string of the model, in tenths;
\* NotAFloat stands for "the conversion raises".
NotAFloat == [kind |-> "error", num |-> 0, text |-> "ValueError"]
StrToFloat(s) ==
    CASE s = "3.5" -> PyFloat(35)
      [] s = "5.1" -> PyFloat(51)
      [] s = "0" -> PyFloat(0)
      [] s = "-2" -> PyFloat(-20)
      [] OTHER -> NotAFloat

\* Conversion of a value to float as pydantic's float field does it (lax
\* mode): an int or a float is taken by value, a numeric str is parsed.
ToFloat(v) ==
    CASE v.kind = "float" -> v
      [] v.kind = "int" -> PyFloat(v.num * 10)
      [] v.kind = "str" -> StrToFloat(v.text)
      [] OTHER -> NotAFloat

\* ------------------------------------------------------------ schema.py

Fields == <<"sepal_length", "sepal_width", "petal_length", "petal_width">>
FieldNames == {Fields[k] : k \in 1..Len(Fields)}

\* Field(..., ge=0): the constraint of each of the four fields.
Ge0Lenient(f, x) == f = "petal_width" \/ x.num >= 0
Ge0(f, x) == x.num >= 0

\* The error pydantic records for one field, "" when there is none.
FieldError(f, v) ==
    IF v.kind = "missing" THEN "missing"
    ELSE IF ToFloat(v) = NotAFloat THEN "float_parsing"
    ELSE IF ~Ge0(f, ToFloat(v)) THEN "greater_than_equal"
    ELSE ""

\* The errors of one construction: every failing field with its reason.
FirstErrorOnly(a) ==
    LET bad == {k \in 1..Len(Fields) : FieldError(Fields[k], a[Fields[k]]) # ""}
    IN  {[loc |-> Fields[k], type |-> FieldError(Fields[k], a[Fields[k]])] :
            k \in {j \in bad : \A i \in bad : j <= i}}
ValidationErrors(a) ==
    {[loc |-> f, type |-> FieldError(f, a[f])] :
        f \in {g \in FieldNames : FieldError(g, a[g]) # ""}}

\* IrisInput(**a) when it validates: the four fields as floats.
IrisInput(a) == [f \in FieldNames |-> ToFloat(a[f])]

\* IrisInput.to_array: one row, in the canonical order.
to_array_swapped(r) ==
    << <<r["sepal_width"], r["sepal_length"], r["petal_length"], r["petal_width"]>> >>
to_array(r) ==
    << <<r["sepal_length"], r["sepal_width"], r["petal_length"], r["petal_width"]>> >>

\* ------------------------------------------------------------ registry values

\* A model version's number is a decimal string, held as its digits.
Versions == {<<2>>, <<9>>, <<1, 0>>}

RECURSIVE int(_)
int(digits) ==
    IF digits = <<>> THEN 0
    ELSE int(SubSeq(digits, 1, Len(digits) - 1)) * 10 + digits[Len(digits)]

\* What get_latest_versions may return: distinct versions in any order.
LatestLists ==
    {s \in UNION {[1..n -> Versions] : n \in 0..MaxLatest} :
        \A a, b \in DOMAIN s : a # b => s[a] # s[b]}

\* sorted(latest, key=lambda v: int(v.version)): a stable insertion sort.
RECURSIVE Insert(_, _)
Insert(s, v) ==
    IF s = <<>> THEN <<v>>
    ELSE IF int(v) < int(s[Len(s)])
         THEN Append(Insert(SubSeq(s, 1, Len(s) - 1), v), s[Len(s)])
         ELSE Append(s, v)

\* sorted(latest, key=lambda v: v.version): the version strings compared
\* as strings, character by character.
RECURSIVE StrLess(_, _)
StrLess(a, b) ==
    IF b = <<>> THEN FALSE
    ELSE IF a = <<>> THEN TRUE
    ELSE IF a[1] # b[1] THEN a[1] < b[1]
    ELSE StrLess(Tail(a), Tail(b))

RECURSIVE InsertStr(_, _)
InsertStr(s, v) ==
    IF s = <<>> THEN <<v>>
    ELSE IF StrLess(v, s[Len(s)])
         THEN Append(InsertStr(SubSeq(s, 1, Len(s) - 1), v), s[Len(s)])
         ELSE Append(s, v)

RECURSIVE sorted_as_strings(_)
sorted_as_strings(s) ==
    IF s = <<>> THEN <<>>
    ELSE InsertStr(sorted_as_strings(SubSeq(s, 1, Len(s) - 1)), s[Len(s)])

RECURSIVE sorted(_)
sorted(s) ==
    IF s = <<>> THEN <<>>
    ELSE Insert(sorted(SubSeq(s, 1, Len(s) - 1)), s[Len(s)])

\* ------------------------------------------------------------ state

VARIABLES
    script,         \* the entry point being executed
    pc,             \* its position
    args,           \* the four measurements given to it
    request,        \* the IrisInput record, once constructed
    arrays,         \* what each to_array() call returned, in order
    ops,            \* operations performed on the record so far
    error,          \* the exception that ended the execution, if any
    exit_status,    \* the process's exit status, -1 while it runs
    log,            \* the calls made so far, each with its outcome
    latest,         \* what get_latest_versions returns
    mv,             \* the model version picked
    exp,            \* whether the experiment exists in the tracking service
    runs,           \* whether the experiment has a run
    metric,         \* whether the latest run carries args.metric
    i,              \* the hyperparameter loop's index
    best_f1,
    best_run_id,
    f1s,            \* the F1 of each run so far
    success,        \* register_best_model's result
    model,          \* load_model_from_git's result
    files           \* file operations, in order

vars ==
    <<script, pc, args, request, arrays, ops, error, exit_status, log, latest,
      mv, exp, runs, metric, i, best_f1, best_run_id, f1s, success, model, files>>

\* What the tracking service holds: fixed during one execution.
service == <<script, latest, exp, runs, metric>>
\* The state of the training scripts.
training == <<i, best_f1, best_run_id, f1s, success, files>>

NoRequest == [f \in FieldNames |-> PyMissing]
NoError == [type |-> "", msg |-> "", errors |-> {}]
NoVersion == <<>>

Call(op, ok) == [op |-> op, ok |-> ok, arg |-> <<>>]
CallWith(op, ok, arg) == [op |-> op, ok |-> ok, arg |-> arg]

Scripts ==
    {"schema", "predict", "evaluate", "register", "train", "ci_train_model",
     "train_and_register_model"}

\* Values a caller may give to or assign on an IrisInput.
RawValues ==
    {PyMissing, PyStr("abc"), PyInt(-1), PyInt(0), PyFloat(51), PyStr("3.5")}
AssignValues == {PyInt(-1), PyFloat(20), PyStr("abc")}
\* Command-line tokens of the four measurement flags (PyMissing: flag absent).
ArgvValues == {PyMissing, PyStr("abc"), PyStr("-2"), PyStr("0"), PyStr("5.1")}

FirstPc(s) ==
    CASE s = "schema" -> "construct"
      [] s = "predict" -> "parse_args"
      [] s = "evaluate" -> "get_experiment_by_name"
      [] s = "register" -> "get_experiment_by_name"
      [] s = "train" -> "set_experiment"
      [] s = "ci_train_model" -> "create_experiment"
      [] s = "train_and_register_model" -> "create_experiment"

Init ==
    /\ script \in Scripts
    /\ pc = FirstPc(script)
    /\ args \in CASE script = "schema" -> [FieldNames -> RawValues]
                  [] script = "predict" -> [FieldNames -> ArgvValues]
                  [] OTHER -> {NoRequest}
    /\ latest \in IF script \in {"predict", "ci_train_model"}
                  THEN LatestLists ELSE {<<>>}
    /\ exp \in IF script \in {"evaluate", "register", "ci_train_model",
                                "train_and_register_model"}
               THEN BOOLEAN ELSE {FALSE}
    /\ runs \in IF script \in {"evaluate", "register"} /\ exp
                THEN BOOLEAN ELSE {FALSE}
    /\ metric \in IF script = "register" /\ runs THEN BOOLEAN ELSE {FALSE}
    /\ request = NoRequest
    /\ arrays = <<>>
    /\ ops = 0
    /\ error = NoError
    /\ exit_status = -1
    /\ log = <<>>
    /\ mv = NoVersion
    /\ i = 0
    /\ best_f1 = 0
    /\ best_run_id = 0
    /\ f1s = <<>>
    /\ success = FALSE
    /\ model = FALSE
    /\ files = <<>>

\* An exception nothing catches: the interpreter prints the traceback and
\* the process ends with status 1.
Uncaught(type, msg, errs) ==
    /\ error' = [type |-> type, msg |-> msg, errors |-> errs]
    /\ exit_status' = 1
    /\ pc' = "done"

\* The script runs off its end: status 0.
Finish ==
    /\ exit_status' = 0
    /\ pc' = "done"
    /\ UNCHANGED error

\* ------------------------------------------------------------ IrisInput in use

\* x = IrisInput(sepal_length=..., ...), as tests/test_schema.py does.
schema_construct ==
    /\ script = "schema" /\ pc = "construct"
    /\ ops' = 0
    /\ IF ValidationErrors(args) = {}
       THEN /\ request' = IrisInput(args)
            /\ pc' = "live"
            /\ UNCHANGED <<error, exit_status>>
       ELSE /\ Uncaught("ValidationError", "validation errors for IrisInput",
                        ValidationErrors(args))
            /\ UNCHANGED request
    /\ UNCHANGED <<service, training, args, arrays, log, mv, model>>

\* x.to_array()
schema_to_array ==
    /\ script = "schema" /\ pc = "live" /\ ops < MaxOps
    /\ arrays' = Append(arrays, to_array(request))
    /\ ops' = ops + 1
    /\ UNCHANGED <<service, training, pc, args, request, error, exit_status,
                   log, mv, model>>

\* x.<field> = v: the class sets neither frozen nor validate_assignment, so
\* BaseModel.__setattr__ stores the value as given.
schema_setattr ==
    /\ script = "schema" /\ pc = "live" /\ ops < MaxOps
    /\ \E f \in FieldNames, v \in AssignValues :
          request' = [request EXCEPT ![f] = v]
    /\ ops' = ops + 1
    /\ UNCHANGED <<service, training, pc, args, arrays, error, exit_status,
                   log, mv, model>>

\* ------------------------------------------------------------ predict.py

\* argparse with type=float, required=True on each measurement flag: a flag
\* that is absent or that float() rejects ends the process with status 2.
predict_parse_args ==
    /\ script = "predict" /\ pc = "parse_args"
    /\ IF \E f \in FieldNames : ToFloat(args[f]) = NotAFloat
       THEN /\ error' = [type |-> "SystemExit", msg |-> "usage", errors |-> {}]
            /\ exit_status' = 2
            /\ pc' = "done"
            /\ UNCHANGED args
       ELSE /\ args' = [f \in FieldNames |-> ToFloat(args[f])]
            /\ pc' = "get_latest_versions"
            /\ UNCHANGED <<error, exit_status>>
    /\ UNCHANGED <<service, training, request, arrays, ops, log, mv, model>>

\* if not latest: raise RuntimeError(...)
NoVersionsNever(l) == FALSE
NoVersions(l) == l = <<>>

\* main, to the choice of the model version.
predict_get_latest_versions ==
    /\ script = "predict" /\ pc = "get_latest_versions"
    /\ \E ok \in BOOLEAN :
          /\ log' = Append(log, Call("get_latest_versions", ok))
          /\ IF ~ok
             THEN /\ Uncaught("MlflowException", "get_latest_versions", {})
                  /\ UNCHANGED mv
             ELSE IF NoVersions(latest)
             THEN /\ Uncaught("RuntimeError",
                       "No registered versions found. Run register.py first.", {})
                  /\ UNCHANGED mv
             ELSE /\ mv' = IF latest = <<>> THEN NoVersion
                           ELSE sorted(latest)[Len(latest)]
                  /\ pc' = "load_model"
                  /\ UNCHANGED <<error, exit_status>>
    /\ UNCHANGED <<service, training, args, request, arrays, ops, model>>

\* model = mlflow.pyfunc.load_model(mv.source)
predict_load_model ==
    /\ script = "predict" /\ pc = "load_model"
    /\ \E ok \in BOOLEAN :
          /\ log' = Append(log, CallWith("load_model", ok, mv))
          /\ model' = ok
          /\ IF ok
             THEN pc' = "validate" /\ UNCHANGED <<error, exit_status>>
             ELSE Uncaught("MlflowException", "load_model", {})
    /\ UNCHANGED <<service, training, args, request, arrays, ops, mv>>

\* request = IrisInput(sepal_length=args.sepal_length, ...)
predict_validate_unchecked ==
    /\ script = "predict" /\ pc = "validate"
    /\ log' = Append(log, Call("IrisInput", TRUE))
    /\ request' = IrisInput(args)
    /\ pc' = "predict"
    /\ UNCHANGED <<service, training, args, arrays, ops, mv, model, error,
                   exit_status>>
predict_validate ==
    /\ script = "predict" /\ pc = "validate"
    /\ log' = Append(log, Call("IrisInput", ValidationErrors(args) = {}))
    /\ IF ValidationErrors(args) = {}
       THEN /\ request' = IrisInput(args)
            /\ pc' = "predict"
            /\ UNCHANGED <<error, exit_status>>
       ELSE /\ Uncaught("ValidationError", "validation errors for IrisInput",
                        ValidationErrors(args))
            /\ UNCHANGED request
    /\ UNCHANGED <<service, training, args, arrays, ops, mv, model>>

\* pred = model.predict(request.to_array()); print(int(pred[0]))
predict_predict ==
    /\ script = "predict" /\ pc = "predict"
    /\ arrays' = Append(arrays, to_array(request))
    /\ \E ok \in BOOLEAN :
          IF ok
          THEN /\ log' = log \o <<CallWith("model.predict", TRUE, to_array(request)),
                                  Call("print", TRUE)>>
               /\ Finish
          ELSE /\ log' = Append(log, CallWith("model.predict", FALSE,
                                              to_array(request)))
               /\ Uncaught("Exception", "model.predict", {})
    /\ UNCHANGED <<service, training, args, request, ops, mv, model>>

\* ------------------------------------------------------------ evaluate.py, register.py

\* if exp is None: raise RuntimeError(...)
ExperimentFoundAlways(e) == FALSE
ExperimentMissing(e) == ~e

\* client.get_experiment_by_name("iris-exp") and the check of its result.
GetExperimentOrRaise(s) ==
    /\ script = s /\ pc = "get_experiment_by_name"
    /\ \E ok \in BOOLEAN :
          /\ log' = Append(log, Call("get_experiment_by_name", ok))
          /\ IF ~ok
             THEN Uncaught("MlflowException", "get_experiment_by_name", {})
             ELSE IF ExperimentMissing(exp)
             THEN Uncaught("RuntimeError",
                      "Experiment iris-exp not found. Run train.py first.", {})
             ELSE pc' = "search_runs" /\ UNCHANGED <<error, exit_status>>
    /\ UNCHANGED <<service, training, args, request, arrays, ops, mv, model>>

\* client.search_runs(..., max_results=1) and the check of its result.
SearchRunsOrRaise(s, msg, next) ==
    /\ script = s /\ pc = "search_runs"
    /\ \E ok \in BOOLEAN :
          /\ log' = Append(log, Call("search_runs", ok))
          /\ IF ~ok
             THEN Uncaught("MlflowException", "search_runs", {})
             ELSE IF ~runs
             THEN Uncaught("RuntimeError", msg, {})
             ELSE pc' = next /\ UNCHANGED <<error, exit_status>>
    /\ UNCHANGED <<service, training, args, request, arrays, ops, mv, model>>

evaluate_get_experiment_by_name == GetExperimentOrRaise("evaluate")

evaluate_search_runs ==
    SearchRunsOrRaise("evaluate", "No runs found. Run train.py first.", "load_model")

\* model = mlflow.sklearn.load_model(model_uri)
evaluate_load_model ==
    /\ script = "evaluate" /\ pc = "load_model"
    /\ \E ok \in BOOLEAN :
          /\ log' = Append(log, Call("load_model", ok))
          /\ model' = ok
          /\ IF ok
             THEN pc' = "report" /\ UNCHANGED <<error, exit_status>>
             ELSE Uncaught("MlflowException", "load_model", {})
    /\ UNCHANGED <<service, training, args, request, arrays, ops, mv>>

\* The predictions on the test set, the report printed and written.
evaluate_report ==
    /\ script = "evaluate" /\ pc = "report"
    /\ log' = log \o <<Call("model.predict", TRUE), Call("print", TRUE)>>
    /\ files' = Append(files, [op |-> "w",
                               path |-> "artifacts/classification_report.txt"])
    /\ Finish
    /\ UNCHANGED <<service, i, best_f1, best_run_id, f1s, success, args, request,
                   arrays, ops, mv, model>>

register_get_experiment_by_name == GetExperimentOrRaise("register")

register_search_runs == SearchRunsOrRaise("register", "No runs found.", "metric")

\* value = metrics.get(args.metric), and the check of it.
register_metric ==
    /\ script = "register" /\ pc = "metric"
    /\ IF ~metric
       THEN Uncaught("RuntimeError", "Metric not found on latest run.", {})
       ELSE pc' = "register_model" /\ UNCHANGED <<error, exit_status>>
    /\ UNCHANGED <<service, training, args, request, arrays, ops, mv, model, log>>

\* mv = mlflow.register_model(model_uri=model_uri, name=args.model_name)
register_register_model ==
    /\ script = "register" /\ pc = "register_model"
    /\ \E ok \in BOOLEAN :
          IF ok
          THEN /\ log' = log \o <<Call("register_model", TRUE), Call("print", TRUE)>>
               /\ Finish
          ELSE /\ log' = Append(log, Call("register_model", FALSE))
               /\ Uncaught("MlflowException", "register_model", {})
    /\ UNCHANGED <<service, training, args, request, arrays, ops, mv, model>>

\* ------------------------------------------------------------ train.py

\* mlflow.set_tracking_uri, mlflow.set_experiment, load_data
train_set_experiment ==
    /\ script = "train" /\ pc = "set_experiment"
    /\ \E ok \in BOOLEAN :
          /\ log' = Append(log, Call("set_experiment", ok))
          /\ IF ok
             THEN pc' = "run" /\ UNCHANGED <<error, exit_status>>
             ELSE Uncaught("MlflowException", "set_experiment", {})
    /\ UNCHANGED <<service, training, args, request, arrays, ops, mv, model>>

\* The run: fit, predict, log_params, log_metric, log_model, print.
train_run ==
    /\ script = "train" /\ pc = "run"
    /\ \E ok \in BOOLEAN :
          /\ log' = Append(log, Call("start_run", ok))
          /\ IF ok THEN Finish ELSE Uncaught("MlflowException", "start_run", {})
    /\ UNCHANGED <<service, training, args, request, arrays, ops, mv, model>>

\* ------------------------------------------------------------ the two training scripts

\* The hyperparameter combinations tried.
NumRuns == 3
\* best_run_id before any run is the best: Python's None.
None == 0
F1Values == 0..MaxF1

\* try: mlflow.create_experiment(name).  It raises MlflowException when the
\* experiment exists already, and may raise it for a service error.
CreateExperiment(s) ==
    /\ script = s /\ pc = "create_experiment"
    /\ \E ok \in BOOLEAN :
          /\ ok => ~exp
          /\ log' = Append(log, Call("create_experiment", ok))
          /\ pc' = IF ok THEN "set_experiment" ELSE "get_experiment_by_name"
    /\ UNCHANGED <<service, training, args, request, arrays, ops, mv, model,
                   error, exit_status>>

\* except MlflowException: experiment = mlflow.get_experiment_by_name(name);
\* experiment_id = experiment.experiment_id
GetExperimentInHandler(s) ==
    /\ script = s /\ pc = "get_experiment_by_name"
    /\ \E ok \in BOOLEAN :
          /\ log' = Append(log, Call("get_experiment_by_name", ok))
          /\ IF ~ok
             THEN Uncaught("MlflowException", "get_experiment_by_name", {})
             ELSE IF ~exp
             THEN Uncaught("AttributeError",
                      "'NoneType' object has no attribute 'experiment_id'", {})
             ELSE pc' = "set_experiment" /\ UNCHANGED <<error, exit_status>>
    /\ UNCHANGED <<service, training, args, request, arrays, ops, mv, model>>

\* mlflow.set_experiment(name); load_data()
SetExperiment(s) ==
    /\ script = s /\ pc = "set_experiment"
    /\ \E ok \in BOOLEAN :
          /\ log' = Append(log, Call("set_experiment", ok))
          /\ IF ok
             THEN pc' = "run" /\ UNCHANGED <<error, exit_status>>
             ELSE Uncaught("MlflowException", "set_experiment", {})
    /\ UNCHANGED <<service, training, args, request, arrays, ops, mv, model>>

ci_create_experiment == CreateExperiment("ci_train_model")
ci_get_experiment_by_name == GetExperimentInHandler("ci_train_model")
ci_set_experiment == SetExperiment("ci_train_model")

\* One iteration of the loop over hyperparams_combinations: the run, its
\* metrics and model logged, and the best model tracked.
ci_run ==
    /\ script = "ci_train_model" /\ pc = "run" /\ i < NumRuns
    /\ \E ok \in BOOLEAN, f1 \in F1Values :
          /\ log' = Append(log, Call("start_run", ok))
          /\ IF ok
             THEN /\ f1s' = Append(f1s, f1)
                  /\ IF f1 > best_f1
                     THEN best_f1' = f1 /\ best_run_id' = i + 1
                     ELSE UNCHANGED <<best_f1, best_run_id>>
                  /\ i' = i + 1
                  /\ UNCHANGED <<pc, error, exit_status>>
             ELSE /\ Uncaught("MlflowException", "start_run", {})
                  /\ UNCHANGED <<i, best_f1, best_run_id, f1s>>
    /\ UNCHANGED <<service, success, files, args, request, arrays, ops, mv, model>>

\* return best_run_id, best_f1, and the caller's print of them.
ci_return ==
    /\ script = "ci_train_model" /\ pc = "run" /\ i = NumRuns
    /\ log' = Append(log, Call("print", TRUE))
    /\ pc' = "get_latest_versions"
    /\ UNCHANGED <<service, training, args, request, arrays, ops, mv, model,
                   error, exit_status>>

\* register_best_model, to the choice of the model version.  Every exception
\* in it is caught and makes it return False.
ci_get_latest_versions ==
    /\ script = "ci_train_model" /\ pc = "get_latest_versions"
    /\ \E ok \in BOOLEAN :
          /\ log' = Append(log, Call("get_latest_versions", ok))
          /\ IF ok /\ latest # <<>>
             THEN /\ mv' = latest[1]
                  /\ pc' = "load_model"
                  /\ UNCHANGED success
             ELSE /\ success' = FALSE
                  /\ pc' = "metadata"
                  /\ UNCHANGED mv
    /\ UNCHANGED <<service, i, best_f1, best_run_id, f1s, files, args, request,
                   arrays, ops, model, error, exit_status>>

\* register_best_model: the model loaded and tried on five rows.
ci_load_model ==
    /\ script = "ci_train_model" /\ pc = "load_model"
    /\ \E ok \in BOOLEAN :
          /\ log' = Append(log, CallWith("load_model", ok, mv))
          /\ model' = ok
          /\ success' = ok
    /\ pc' = "metadata"
    /\ UNCHANGED <<service, i, best_f1, best_run_id, f1s, files, args, request,
                   arrays, ops, mv, error, exit_status>>

\* create_model_metadata: json.dump into model_metadata.json.
ci_create_model_metadata_skipped ==
    /\ script = "ci_train_model" /\ pc = "metadata"
    /\ pc' = "exit"
    /\ UNCHANGED <<service, training, log, args, request, arrays, ops, mv,
                   model, error, exit_status>>
ci_create_model_metadata ==
    /\ script = "ci_train_model" /\ pc = "metadata"
    /\ files' = Append(files, [op |-> "w", path |-> "model_metadata.json"])
    /\ log' = Append(log, Call("print", TRUE))
    /\ pc' = "exit"
    /\ UNCHANGED <<service, i, best_f1, best_run_id, f1s, success, args, request,
                   arrays, ops, mv, model, error, exit_status>>

\* if success: ... else: sys.exit(1)
ci_exit ==
    /\ script = "ci_train_model" /\ pc = "exit"
    /\ IF success
       THEN Finish
       ELSE /\ error' = [type |-> "SystemExit", msg |-> "1", errors |-> {}]
            /\ exit_status' = 1
            /\ pc' = "done"
    /\ UNCHANGED <<service, training, log, args, request, arrays, ops, mv, model>>

tar_create_experiment == CreateExperiment("train_and_register_model")
tar_get_experiment_by_name == GetExperimentInHandler("train_and_register_model")
tar_set_experiment == SetExperiment("train_and_register_model")

\* train_and_register_model: the one run, its model logged and registered.
tar_run ==
    /\ script = "train_and_register_model" /\ pc = "run"
    /\ \E ok \in BOOLEAN :
          /\ log' = Append(log, Call("start_run", ok))
          /\ IF ok
             THEN pc' = "load_model" /\ UNCHANGED <<error, exit_status>>
             ELSE Uncaught("MlflowException", "start_run", {})
    /\ UNCHANGED <<service, training, args, request, arrays, ops, mv, model>>

\* load_model_from_git: every exception in it is caught and makes it return
\* None.
tar_load_model_from_git ==
    /\ script = "train_and_register_model" /\ pc = "load_model"
    /\ \E ok \in BOOLEAN :
          /\ log' = Append(log, Call("load_model", ok))
          /\ model' = ok
    /\ pc' = "exit"
    /\ UNCHANGED <<service, training, args, request, arrays, ops, mv, error,
                   exit_status>>

\* if model: print(...) else: print(...); the script ends either way.
tar_exit ==
    /\ script = "train_and_register_model" /\ pc = "exit"
    /\ log' = Append(log, Call("print", TRUE))
    /\ Finish
    /\ UNCHANGED <<service, training, args, request, arrays, ops, mv, model>>

\* ------------------------------------------------------------ specification

Next ==
    \/ schema_construct
    \/ schema_to_array
    \/ schema_setattr
    \/ predict_parse_args
    \/ predict_get_latest_versions
    \/ predict_load_model
    \/ predict_validate
    \/ predict_predict
    \/ evaluate_get_experiment_by_name
    \/ evaluate_search_runs
    \/ evaluate_load_model
    \/ evaluate_report
    \/ register_get_experiment_by_name
    \/ register_search_runs
    \/ register_metric
    \/ register_register_model
    \/ train_set_experiment
    \/ train_run
    \/ ci_create_experiment
    \/ ci_get_experiment_by_name
    \/ ci_set_experiment
    \/ ci_run
    \/ ci_return
    \/ ci_get_latest_versions
    \/ ci_load_model
    \/ ci_create_model_metadata
    \/ ci_exit
    \/ tar_create_experiment
    \/ tar_get_experiment_by_name
    \/ tar_set_experiment
    \/ tar_run
    \/ tar_load_model_from_git
    \/ tar_exit

Spec == Init /\ [][Next]_vars

\* ------------------------------------------------------------ vocabulary of the properties

\* What a value is, read off the value itself.
IsMissing(v) == v.kind = "missing"
IsNumeric(v) ==
    \/ v.kind \in {"int", "float"}
    \/ v.kind = "str" /\ v.text \in {"3.5", "5.1", "0", "-2"}
IsNegative(v) ==
    \/ v.kind \in {"int", "float"} /\ v.num < 0
    \/ v.kind = "str" /\ v.text = "-2"
IsNumber(v) == v.kind \in {"int", "float"}
\* The float equal to an int or a float.
AsFloat(v) == PyFloat(IF v.kind = "int" THEN v.num * 10 ELSE v.num)

Called(op) == \E k \in DOMAIN log : log[k].op = op
Returned(op) == \E k \in DOMAIN log : log[k].op = op /\ log[k].ok

\* IrisInput(...) has been evaluated on args.
ConstructionTried ==
    \/ script = "schema" /\ pc # "construct"
    \/ script = "predict" /\ Called("IrisInput")

\* No assignment has been made on the record.
NeverAssigned == script = "schema" => ops = Len(arrays)

\* C1: whenever IrisInput is constructed from four measurements of which at
\* least one is negative, the construction fails with ValidationError,
\* whatever the other three are, and no record and no feature vector exist.
C1_NegativeRejected ==
    (ConstructionTried /\ \E f \in FieldNames : IsNegative(args[f]))
        => /\ error.type = "ValidationError"
           /\ request = NoRequest
           /\ arrays = <<>>

\* C1's case: only petal_width is negative, the other three are valid.
C1_Witness ==
    /\ script = "schema" /\ pc = "done"
    /\ IsNegative(args["petal_width"])
    /\ \A f \in FieldNames \ {"petal_width"} :
          IsNumber(args[f]) /\ ~IsNegative(args[f])
    /\ error.type = "ValidationError"

\* C2: whenever IrisInput is constructed from four numbers that are all
\* >= 0 (0 included), the construction succeeds and each to_array() of the
\* record as constructed is one row of four elements: sepal_length,
\* sepal_width, petal_length, petal_width, in that order.
C2_OrderedVector ==
    (/\ ConstructionTried
     /\ \A f \in FieldNames : IsNumber(args[f]) /\ ~IsNegative(args[f]))
        => /\ error.type # "ValidationError"
           /\ NeverAssigned =>
                 \A k \in DOMAIN arrays :
                    /\ Len(arrays[k]) = 1
                    /\ Len(arrays[k][1]) = 4
                    /\ arrays[k] =
                          << <<AsFloat(args["sepal_length"]),
                               AsFloat(args["sepal_width"]),
                               AsFloat(args["petal_length"]),
                               AsFloat(args["petal_width"])>> >>

\* C2's case: a record with a 0 field and two different neighbours, read
\* by to_array.
C2_Witness ==
    /\ script = "schema" /\ ops = 1 /\ Len(arrays) = 1
    /\ args["sepal_length"] = PyFloat(51)
    /\ args["sepal_width"] = PyInt(0)
    /\ args["petal_length"] = PyInt(0)
    /\ args["petal_width"] = PyFloat(51)

\* C3: a constructed record keeps the values it was constructed with, so
\* each field stays a float >= 0 and every to_array() returns what the
\* first one returned.
C3_Immutable ==
    (script = "schema" /\ pc = "live")
        => /\ \A f \in FieldNames :
                 request[f] = ToFloat(args[f]) /\ request[f].num >= 0
           /\ \A k \in DOMAIN arrays : arrays[k] = arrays[1]

\* C4: a ValidationError names exactly the fields whose value is missing,
\* non-numeric or negative, each with its reason, all in the one error.
C4_ErrorNamesFailingFields ==
    error.type = "ValidationError"
        => /\ {e.loc : e \in error.errors} =
                 {f \in FieldNames :
                     IsMissing(args[f]) \/ ~IsNumeric(args[f]) \/ IsNegative(args[f])}
           /\ \A e \in error.errors :
                 e.type = IF IsMissing(args[e.loc]) THEN "missing"
                          ELSE IF ~IsNumeric(args[e.loc]) THEN "float_parsing"
                          ELSE "greater_than_equal"

\* C4's case: three fields fail, each for another reason, and one is valid.
C4_Witness ==
    /\ script = "schema"
    /\ error.type = "ValidationError"
    /\ args["sepal_length"] = PyInt(-1)
    /\ args["sepal_width"] = PyStr("abc")
    /\ args["petal_length"] = PyMissing
    /\ args["petal_width"] = PyFloat(51)
    /\ {e.loc : e \in error.errors} =
          {"sepal_length", "sepal_width", "petal_length"}

\* main(args) has been entered: argparse accepted the command line.
InMain == script = "predict" /\ pc # "parse_args" /\ error.type # "SystemExit"
SomeInvalid == \E f \in FieldNames : IsNegative(args[f]) \/ ~IsNumeric(args[f])

\* model.predict is called only after IrisInput(...) returned, and on the
\* four validated measurements in the canonical order.
PredictOnlyValidated ==
    \A k \in DOMAIN log :
        log[k].op = "model.predict"
            => /\ \E j \in 1..(k - 1) : log[j].op = "IrisInput" /\ log[j].ok
               /\ ~SomeInvalid
               /\ log[k].arg = << <<args["sepal_length"], args["sepal_width"],
                                     args["petal_length"], args["petal_width"]>> >>

\* C5 as stated: in predict.main, model.predict is called only on the
\* validated record's to_array(), and an execution with an invalid
\* measurement ends with ValidationError, no model.predict, nothing printed.
\* Executions in which the service itself raised are left aside here, so
\* that only the order of main's own steps decides.
C5_InvalidEndsValidationError ==
    script = "predict"
        => /\ PredictOnlyValidated
           /\ (InMain /\ pc = "done" /\ SomeInvalid
                  /\ \A k \in DOMAIN log : log[k].ok \/ log[k].op = "IrisInput")
                 => /\ error.type = "ValidationError"
                    /\ ~Called("model.predict")
                    /\ ~Called("print")

\* C5 amended: the same, but an execution with an invalid measurement ends
\* with ValidationError only when it reaches the validation, that is when
\* the version lookup and the model load before it succeeded; otherwise it
\* ends with the error of the lookup or of the load.  In no case is
\* model.predict called or a prediction printed.
C5_PredictAfterValidation ==
    script = "predict"
        => /\ PredictOnlyValidated
           /\ (InMain /\ pc = "done" /\ SomeInvalid)
                 => /\ exit_status = 1
                    /\ ~Called("model.predict")
                    /\ ~Called("print")
                    /\ Called("IrisInput") <=> error.type = "ValidationError"
                    /\ ~Called("IrisInput")
                          => \/ ~Returned("get_latest_versions")
                             \/ latest = <<>>
                             \/ ~Returned("load_model")

\* C5's case: the model was loaded and a measurement is invalid.
C5_Witness ==
    /\ script = "predict" /\ pc = "done"
    /\ Returned("load_model")
    /\ SomeInvalid
    /\ error.type = "ValidationError"

\* C6: in predict.main, when get_latest_versions returns an empty list the
\* execution fails with the error "No registered versions found...", with no
\* model loaded, no input validated and no prediction made, whether or not
\* the measurements are valid.
C6_NoVersionsFails ==
    (script = "predict" /\ Returned("get_latest_versions") /\ latest = <<>>)
        => /\ pc = "done" /\ exit_status = 1
           /\ error.type = "RuntimeError"
           /\ error.msg = "No registered versions found. Run register.py first."
           /\ ~Called("load_model") /\ ~model
           /\ ~Called("IrisInput") /\ request = NoRequest
           /\ ~Called("model.predict") /\ ~Called("print")

\* C6's case: the registry is empty and a measurement is invalid.
C6_Witness ==
    /\ script = "predict" /\ pc = "done"
    /\ latest = <<>> /\ Returned("get_latest_versions")
    /\ IsNegative(args["sepal_length"])
    /\ error.type = "RuntimeError"

\* C7: in evaluate.main and register.main, when get_experiment_by_name
\* returns None the step fails with the error telling to run train.py first,
\* before anything else: no run search, no model load, no report written, no
\* model version registered.
C7_NoExperimentFails ==
    (script \in {"evaluate", "register"} /\ Returned("get_experiment_by_name")
        /\ ~exp)
        => /\ pc = "done" /\ exit_status = 1
           /\ error.type = "RuntimeError"
           /\ error.msg = "Experiment iris-exp not found. Run train.py first."
           /\ log = <<Call("get_experiment_by_name", TRUE)>>
           /\ files = <<>>
           /\ ~model

\* C7's case: register.py with no experiment.
C7_Witness ==
    /\ script = "register" /\ pc = "done" /\ ~exp
    /\ Returned("get_experiment_by_name")
    /\ error.type = "RuntimeError"

\* A call that failed.  create_experiment raising because the experiment
\* exists is the expected path of the two training scripts, not a failure.
Failed(e) == ~e.ok /\ ~(e.op = "create_experiment" /\ exp)

\* C8: no failed step is attempted again, and no execution in which a step
\* failed ends with exit status 0.
C8_FailureExitsNonZero ==
    /\ \A j, k \in DOMAIN log : (j < k /\ Failed(log[j])) => log[k].op # log[j].op
    /\ exit_status = 0 => \A k \in DOMAIN log : ~Failed(log[k])

MetadataWrites ==
    Cardinality({k \in DOMAIN files :
        files[k].op = "w" /\ files[k].path = "model_metadata.json"})
TrainingReturned == Len(f1s) = NumRuns

\* C9 as stated: every execution of the CI training pipeline writes
\* model_metadata.json exactly once, whatever the outcome of the training
\* and registration steps, and nothing reads the file.
C9_MetadataWrittenOnceAlways ==
    /\ (script = "ci_train_model" /\ pc = "done") => MetadataWrites = 1
    /\ \A k \in DOMAIN files : files[k].path = "model_metadata.json" => files[k].op = "w"

\* C9 amended: an execution of the CI training pipeline writes
\* model_metadata.json exactly once when the training step returns, whatever
\* the outcome of the registration step, and not at all when the training
\* step raises; never more than once, and nothing reads the file.
C9_MetadataWrittenOnceAfterTraining ==
    /\ MetadataWrites <= 1
    /\ (script = "ci_train_model" /\ pc = "done")
          => MetadataWrites = (IF TrainingReturned THEN 1 ELSE 0)
    /\ script # "ci_train_model" => MetadataWrites = 0
    /\ \A k \in DOMAIN files : files[k].path = "model_metadata.json" => files[k].op = "w"

\* C9's case: the registration step failed and the file is written.
C9_Witness ==
    /\ script = "ci_train_model" /\ pc = "done"
    /\ TrainingReturned /\ ~success /\ exit_status = 1
    /\ MetadataWrites = 1

Max(seq) == CHOOSE m \in {seq[k] : k \in DOMAIN seq} : \A k \in DOMAIN seq : seq[k] <= m
FirstAt(seq, m) == CHOOSE k \in DOMAIN seq : seq[k] = m /\ \A j \in 1..(k - 1) : seq[j] # m

\* C10: when train_model_with_hyperparameters returns, best_f1 is the
\* greatest F1 of the runs and best_run_id is the id of the first run that
\* attained it, so best_run_id is not None.
C10_ReturnsBest ==
    (script = "ci_train_model" /\ TrainingReturned /\ pc # "run")
        => /\ best_f1 = Max(f1s)
           /\ best_run_id = FirstAt(f1s, Max(f1s))
           /\ best_run_id # None

\* The number a version string of one or two digits writes.
VersionNumber(v) == IF Len(v) = 1 THEN v[1] ELSE 10 * v[1] + v[2]
InLatest == {latest[k] : k \in DOMAIN latest}

\* C11: in predict.main, when get_latest_versions returns a non-empty list,
\* the version picked, and the one load_model is called on, is the one of the
\* list with the greatest version number as an integer (10 above 9),
\* whatever the order of the list.
C11_HighestVersionLoaded ==
    (script = "predict" /\ Returned("get_latest_versions") /\ latest # <<>>)
        => /\ mv \in InLatest
           /\ \A w \in InLatest : VersionNumber(w) <= VersionNumber(mv)
           /\ \A k \in DOMAIN log : log[k].op = "load_model" => log[k].arg = mv

\* C11's case: the registry returns version 10 before version 9, and the
\* model of version 10 is loaded and used for the prediction.
C11_Witness ==
    /\ script = "predict"
    /\ latest = << <<1, 0>>, <<9>> >>
    /\ mv = <<1, 0>>
    /\ Returned("load_model")
    /\ Returned("model.predict")

====
